---------------------------- MODULE Spec2Model ----------------------------
(***************************************************************************)
(* A model of wavesoft/local-echo: the LocalEchoController line editor,    *)
(* its HistoryController and the text utilities it is built on.            *)
(*                                                                         *)
(* A JavaScript string is a sequence of one-character strings.  A control  *)
(* character that TLA+ cannot write is a named token of the same role      *)
(* (ESC for \x1B, DEL for \x7F, ETX for \x03); an escape sequence the      *)
(* controller writes to the terminal is one token ("ESC[K").               *)
(***************************************************************************)
EXTENDS Integers, Sequences, FiniteSets, TLC

\* ------------------------------------------------------------------ bounds

\* The longest Buffer the environment is allowed to build, in a session of
\* several line reads and in the first line read of a session.
MaxLen == 2

MaxLenEdit == 3

\* options.historySize of the session under test.
HistorySize == 1

\* The largest size of a HistoryController taken on its own.
MaxHistorySize == 3

\* The longest line completed, and so recalled from the History, where the
\* screen is followed.
MaxRecalled == 1

\* The longest text Enter is pressed on, and the longest Tab is pressed in,
\* when the text is given rather than typed.
MaxText == 3

\* options.maxAutocompleteEntries of the session under test.
MaxAutocompleteEntries == 2

\* ------------------------------------------------------------- characters

NL == "\n"
CR == "\r"
TAB == "\t"
ESC == "ESC"
DEL == "DEL"
ETX == "ETX"
SQ == "'"
DQ == "\""
BS == "\\"
SP == " "

\* String.prototype.charCodeAt for the characters of the model.
Ord(c) ==
  CASE c = ETX -> 3
    [] c = TAB -> 9
    [] c = NL -> 10
    [] c = CR -> 13
    [] c = ESC -> 27
    [] c = SP -> 32
    [] c = DQ -> 34
    [] c = "$" -> 36
    [] c = "&" -> 38
    [] c = SQ -> 39
    [] c = "3" -> 51
    [] c = ">" -> 62
    [] c = "?" -> 63
    [] c = "A" -> 65
    [] c = "B" -> 66
    [] c = "C" -> 67
    [] c = "D" -> 68
    [] c = "F" -> 70
    [] c = "H" -> 72
    [] c = "Y" -> 89
    [] c = "[" -> 91
    [] c = BS -> 92
    [] c = "b" -> 98
    [] c = "f" -> 102
    [] c = "h" -> 104
    [] c = "i" -> 105
    [] c = "y" -> 121
    [] c = "|" -> 124
    [] c = "~" -> 126
    [] c = DEL -> 127

\* \s of a JavaScript regular expression, and what String.prototype.trim strips.
IsSpace(c) == c \in {SP, TAB, NL, CR}

\* \w of a JavaScript regular expression.
IsWordChar(c) == c \in {"h", "i", "y", "Y", "b", "f", "A", "B", "C", "D", "F", "H", "3"}

\* ---------------------------------------------------------------- strings

Min(a, b) == IF a < b THEN a ELSE b

Max(a, b) == IF a > b THEN a ELSE b

\* String.prototype.substr(from) / substr(from, len), 0-based.
SubstrFrom(s, from) == SubSeq(s, Min(Max(from, 0), Len(s)) + 1, Len(s))

Substr(s, from, n) == SubSeq(s, Max(from, 0) + 1, Min(Max(from, 0) + Max(n, 0), Len(s)))

\* String.prototype.charAt: the empty string outside the text.
CharAt(s, i) == IF i >= 0 /\ i < Len(s) THEN s[i + 1] ELSE ""

StartsWith(s, p) == Len(p) <= Len(s) /\ SubSeq(s, 1, Len(p)) = p

EndsWith(s, p) == Len(p) <= Len(s) /\ SubSeq(s, Len(s) - Len(p) + 1, Len(s)) = p

RECURSIVE Repeat(_, _)
\* String.prototype.repeat, and a loop writing the same tokens n times.
Repeat(toks, n) == IF n <= 0 THEN <<>> ELSE toks \o Repeat(toks, n - 1)

\* input.trim() == ""
IsBlank(s) == \A i \in 1..Len(s) : IsSpace(s[i])

RECURSIVE CountChar(_, _)
\* (input.match(/c/g) || []).length
CountChar(s, c) ==
  IF s = <<>> THEN 0
  ELSE (IF Head(s) = c THEN 1 ELSE 0) + CountChar(Tail(s), c)

\* ------------------------------------------------------------------ Utils

RECURSIVE WordsFrom(_, _, _)
\* rx.exec loop of wordBoundaries: the maximal runs of \w from offset i on.
WordsFrom(input, i, leftSide) ==
  IF i >= Len(input) THEN <<>>
  ELSE IF ~IsWordChar(input[i + 1]) THEN WordsFrom(input, i + 1, leftSide)
  ELSE LET stop == IF \E j \in i..(Len(input) - 1) : ~IsWordChar(input[j + 1])
                   THEN CHOOSE j \in i..(Len(input) - 1) :
                          /\ ~IsWordChar(input[j + 1])
                          /\ \A k \in i..(j - 1) : IsWordChar(input[k + 1])
                   ELSE Len(input)
       IN <<IF leftSide THEN i ELSE stop>> \o WordsFrom(input, stop, leftSide)

wordBoundaries(input, leftSide) == WordsFrom(input, 0, leftSide)

\* closestLeftBoundary that steps one character back, as Backspace does.
closestLeftBoundary_PreviousChar(input, offset) == Max(offset - 1, 0)

closestLeftBoundary(input, offset) ==
  LET w == wordBoundaries(input, TRUE)
      lower == {k \in 1..Len(w) : w[k] < offset}
  IN IF lower = {} THEN 0
     ELSE w[CHOOSE k \in lower : \A m \in lower : m <= k]

\* closestRightBoundary that steps one character forward, as the right
\* arrow does.
closestRightBoundary_NextChar(input, offset) == Min(offset + 1, Len(input))

closestRightBoundary(input, offset) ==
  LET w == wordBoundaries(input, FALSE)
      upper == {k \in 1..Len(w) : w[k] > offset}
  IN IF upper = {} THEN Len(input)
     ELSE w[CHOOSE k \in upper : \A m \in upper : k <= m]

RECURSIVE ColRowLoop(_, _, _, _, _, _)
\* The for loop of offsetToColRow.
ColRowLoop(input, offset, maxCols, i, row, col) ==
  IF i >= offset THEN [row |-> row, col |-> col]
  ELSE IF CharAt(input, i) = NL
       THEN ColRowLoop(input, offset, maxCols, i + 1, row + 1, 0)
       ELSE IF col + 1 > maxCols
            THEN ColRowLoop(input, offset, maxCols, i + 1, row + 1, 0)
            ELSE ColRowLoop(input, offset, maxCols, i + 1, row, col + 1)

offsetToColRow(input, offset, maxCols) == ColRowLoop(input, offset, maxCols, 0, 0, 0)

\* countLines that counts the rows of the last line of the input only.
countLines_LastLineOnly(input, maxCols) ==
  LET breaks == {k \in 1..Len(input) : input[k] = NL}
      start == IF breaks = {} THEN 0 ELSE CHOOSE k \in breaks : \A m \in breaks : m <= k
      last == SubSeq(input, start + 1, Len(input))
  IN offsetToColRow(last, Len(last), maxCols).row + 1

countLines(input, maxCols) == offsetToColRow(input, Len(input), maxCols).row + 1

RECURSIVE LastSegment(_, _)
\* input.split(/(\|\||\||&&)/g).pop(): the text after the last operator.
LastSegment(s, seg) ==
  IF s = <<>> THEN seg
  ELSE IF StartsWith(s, <<"|", "|">>) \/ StartsWith(s, <<"&", "&">>)
       THEN LastSegment(SubstrFrom(s, 2), <<>>)
       ELSE IF Head(s) = "|" THEN LastSegment(Tail(s), <<>>)
            ELSE LastSegment(Tail(s), Append(seg, Head(s)))

isIncompleteInput(input) ==
  IF IsBlank(input) THEN FALSE
  ELSE IF CountChar(input, SQ) % 2 # 0 THEN TRUE
  ELSE IF CountChar(input, DQ) % 2 # 0 THEN TRUE
  ELSE IF IsBlank(LastSegment(input, <<>>)) THEN TRUE
  ELSE IF EndsWith(input, <<BS>>) /\ ~EndsWith(input, <<BS, BS>>) THEN TRUE
  ELSE FALSE

\* input.match(/[^\\][ \t]$/m) != null: with the m flag, $ also matches
\* right before a line terminator.
hasTailingWhitespace(input) ==
  \E k \in 2..Len(input) :
    /\ input[k] \in {SP, TAB}
    /\ input[k - 1] # BS
    /\ (k = Len(input) \/ input[k + 1] \in {NL, CR})

\* ------------------------------------------------ shell-quote (imported)

RECURSIVE ParseFrom(_, _, _, _)
\* parse of the shell-quote package, for texts of bare characters, quotes
\* and whitespace: a token is a maximal run of bare characters and closed
\* quoted blocks, with the quote characters removed; whitespace and a quote
\* that is never closed separate tokens.
ParseFrom(s, p, cur, inTok) ==
  IF p >= Len(s) THEN (IF inTok THEN <<cur>> ELSE <<>>)
  ELSE LET c == s[p + 1]
           closing == {j \in (p + 1)..(Len(s) - 1) : s[j + 1] = c}
       IN IF c \in {SQ, DQ} /\ closing # {}
          THEN LET j == CHOOSE k \in closing : \A m \in closing : k <= m
               IN ParseFrom(s, j + 1, cur \o SubSeq(s, p + 2, j), TRUE)
          ELSE IF c \in {SQ, DQ} \/ IsSpace(c)
               THEN (IF inTok THEN <<cur>> ELSE <<>>) \o ParseFrom(s, p + 1, <<>>, FALSE)
               ELSE ParseFrom(s, p + 1, Append(cur, c), TRUE)

parse(s) == ParseFrom(s, 0, <<>>, FALSE)

\* ------------------------------------------------- Utils: tab completion

getLastToken(input) ==
  IF IsBlank(input) THEN <<>>
  ELSE IF hasTailingWhitespace(input) THEN <<>>
  ELSE LET tokens == parse(input)
       IN IF tokens = <<>> THEN <<>> ELSE tokens[Len(tokens)]

\* The candidate lists the registered completion callbacks of the model
\* hand back: "words" returns a fixed word list for every token index,
\* "first" returns it for the first token only, "other" returns a second
\* list, "gives" returns the list it was registered with, "throws" raises.
WordList == << <<"h", "i">>, <<"h", "h">>, <<"h", "i", "h">>, <<"i", "h">> >>

OtherList == << <<"i", "i">>, <<"H", "i">> >>

CallProvider(cb, index, tokens) ==
  CASE cb.fn = "words" -> [ok |-> TRUE, value |-> WordList]
    [] cb.fn = "first" -> [ok |-> TRUE, value |-> IF index = 0 THEN WordList ELSE <<>>]
    [] cb.fn = "other" -> [ok |-> TRUE, value |-> OtherList]
    [] cb.fn = "gives" -> [ok |-> TRUE, value |-> cb.args]
    [] cb.fn = "throws" -> [ok |-> FALSE, value |-> <<>>]

RECURSIVE ReduceCallbacks_StopsAtFailure(_, _, _, _)
\* The reduce with the try/catch around the whole of it: the first callback
\* that raises ends the collection.
ReduceCallbacks_StopsAtFailure(callbacks, index, tokens, candidates) ==
  IF callbacks = <<>> THEN candidates
  ELSE LET r == CallProvider(Head(callbacks), index, tokens)
       IN IF r.ok
          THEN ReduceCallbacks_StopsAtFailure(Tail(callbacks), index, tokens,
                                              candidates \o r.value)
          ELSE candidates

RECURSIVE ReduceCallbacks(_, _, _, _)
\* callbacks.reduce(...) of collectAutocompleteCandidates, with its try/catch.
ReduceCallbacks(callbacks, index, tokens, candidates) ==
  IF callbacks = <<>> THEN candidates
  ELSE LET r == CallProvider(Head(callbacks), index, tokens)
       IN ReduceCallbacks(Tail(callbacks), index, tokens,
                          IF r.ok THEN candidates \o r.value ELSE candidates)

collectAutocompleteCandidates(callbacks, input) ==
  LET tokens == parse(input)
      index0 == Len(tokens) - 1
      expr0 == IF tokens = <<>> THEN <<>> ELSE tokens[Len(tokens)]
      target == IF IsBlank(input) THEN [index |-> 0, expr |-> <<>>]
                ELSE IF hasTailingWhitespace(input)
                     THEN [index |-> index0 + 1, expr |-> <<>>]
                     ELSE [index |-> index0, expr |-> expr0]
      all == ReduceCallbacks(callbacks, target.index, tokens, <<>>)
  IN SelectSeq(all, LAMBDA txt : StartsWith(txt, target.expr))

\* getSharedFragment without the recursion: the fragment is handed back as
\* it came.
getSharedFragment_NoExtend(fragment, candidates) == <<fragment>>

RECURSIVE getSharedFragment(_, _)
\* The result is <<>> for null and <<fragment>> for a string.
getSharedFragment(fragment, candidates) ==
  IF Len(fragment) >= Len(candidates[1]) THEN <<fragment>>
  ELSE LET oldFragment == fragment
           newFragment == fragment \o Substr(candidates[1], Len(fragment), 1)
           bad == {i \in 1..Len(candidates) :
                     \/ ~StartsWith(candidates[i], oldFragment)
                     \/ ~StartsWith(candidates[i], newFragment)}
       IN IF bad = {} THEN getSharedFragment(newFragment, candidates)
          ELSE LET i == CHOOSE k \in bad : \A m \in bad : k <= m
               IN IF ~StartsWith(candidates[i], oldFragment) THEN <<>>
                  ELSE <<oldFragment>>

RECURSIVE StrLess(_, _)
\* a < b for two strings, by UTF-16 code unit.
StrLess(a, b) ==
  IF b = <<>> THEN FALSE
  ELSE IF a = <<>> THEN TRUE
  ELSE IF Head(a) = Head(b) THEN StrLess(Tail(a), Tail(b))
  ELSE Ord(Head(a)) < Ord(Head(b))

RECURSIVE SortStrings(_)
\* Array.prototype.sort() without a comparator (insertion of the head
\* into the sorted tail; the order of equal strings cannot be observed).
SortStrings(xs) ==
  IF xs = <<>> THEN <<>>
  ELSE LET rest == SortStrings(Tail(xs))
           before == SelectSeq(rest, LAMBDA y : StrLess(y, Head(xs)))
           after == SelectSeq(rest, LAMBDA y : ~StrLess(y, Head(xs)))
       IN before \o <<Head(xs)>> \o after

\* ------------------------------------------------------ HistoryController

\* new HistoryController(size)
NewHistory(size) == [size |-> size, entries |-> <<>>, cursor |-> 0]

\* entries.pop(0): Array.prototype.pop takes no argument and removes the
\* LAST element.
ArrayPop(entries) == SubSeq(entries, 1, Len(entries) - 1)

\* push without the check for a duplicate of the newest entry.
HistoryPush_NoDuplicateCheck(h, entry) ==
  IF IsBlank(entry) THEN h
  ELSE LET pushed == Append(h.entries, entry)
           kept == IF Len(pushed) > h.size THEN ArrayPop(pushed) ELSE pushed
       IN [h EXCEPT !.entries = kept, !.cursor = Len(kept)]

HistoryPush(h, entry) ==
  IF IsBlank(entry) THEN h
  ELSE IF h.entries # <<>> /\ entry = h.entries[Len(h.entries)] THEN h
  ELSE LET pushed == Append(h.entries, entry)
           kept == IF Len(pushed) > h.size THEN ArrayPop(pushed) ELSE pushed
       IN [h EXCEPT !.entries = kept, !.cursor = Len(kept)]

\* rewind that leaves the cursor where it is.
HistoryRewind_Noop(h) == h

HistoryRewind(h) == [h EXCEPT !.cursor = Len(h.entries)]

\* getPrevious / getNext: the moved history and the entry returned, as
\* <<entry>>, or <<>> when entries[idx] is undefined.
HistoryGetPrevious(h) ==
  LET idx == Max(0, h.cursor - 1)
  IN [h |-> [h EXCEPT !.cursor = idx],
      value |-> IF idx < Len(h.entries) THEN <<h.entries[idx + 1]>> ELSE <<>>]

\* getNext without the upper limit on the cursor.
HistoryGetNext_NoLimit(h) ==
  LET idx == h.cursor + 1
  IN [h |-> [h EXCEPT !.cursor = idx],
      value |-> IF idx < Len(h.entries) THEN <<h.entries[idx + 1]>> ELSE <<>>]

HistoryGetNext(h) ==
  LET idx == Min(Len(h.entries), h.cursor + 1)
  IN [h |-> [h EXCEPT !.cursor = idx],
      value |-> IF idx < Len(h.entries) THEN <<h.entries[idx + 1]>> ELSE <<>>]

\* ---------------------------------------------------- LocalEchoController

(***************************************************************************)
(* A controller is a record s:                                             *)
(*   active, input, cursor         _active, _input, _cursor                *)
(*   activePrompt                  <<>> for null, else <<[prompt,          *)
(*                                 continuationPrompt]>>                   *)
(*   activeCharPrompt              <<>> for null, else <<[kind, cursor,    *)
(*                                 candidates]>>: kind "user" for a caller *)
(*                                 of readChar, "tab" for the confirmation *)
(*                                 of a long candidate listing, with what  *)
(*                                 the continuation of its promise closes  *)
(*                                 over                                    *)
(*   termCols                      _termSize.cols                          *)
(*   history                       the HistoryController                   *)
(*   handlers                      _autocompleteHandlers                   *)
(*   predicate                     which isIncompleteInput is in use       *)
(*   hung                          an operation never returns              *)
(* and, while an operation runs,                                           *)
(*   out                           what it has written to the terminal,    *)
(*                                 in order                                *)
(*   settled                       the promises it has resolved or         *)
(*                                 rejected, in order                      *)
(***************************************************************************)

Write(s, toks) == [s EXCEPT !.out = @ \o toks]

Settle(s, promise, how, value) ==
  [s EXCEPT !.settled = Append(@, [promise |-> promise, how |-> how, value |-> value])]

\* A caller-supplied options.isIncompleteInput: a line is continued until
\* it ends with "i".
customIsIncompleteInput(input) ==
  ~IsBlank(input) /\ input[Len(input)] # "i"

\* thisIsIncompleteInput with options.isIncompleteInput never consulted.
thisIsIncompleteInput_DefaultOnly(s, input) == isIncompleteInput(input)

\* this.isIncompleteInput(input)
thisIsIncompleteInput(s, input) ==
  IF s.predicate = "custom" THEN customIsIncompleteInput(input)
  ELSE isIncompleteInput(input)

RECURSIVE ReplaceNewlines(_, _)
\* input.replace(/\n/g, "\n" + with)
ReplaceNewlines(input, with) ==
  IF input = <<>> THEN <<>>
  ELSE IF Head(input) = NL THEN <<NL>> \o with \o ReplaceNewlines(Tail(input), with)
  ELSE <<Head(input)>> \o ReplaceNewlines(Tail(input), with)

applyPrompts(s, input) ==
  LET prompt == IF s.activePrompt = <<>> THEN <<>> ELSE s.activePrompt[1].prompt
      continuationPrompt ==
        IF s.activePrompt = <<>> THEN <<>> ELSE s.activePrompt[1].continuationPrompt
  IN prompt \o ReplaceNewlines(input, continuationPrompt)

applyPromptOffset(s, input, offset) == Len(applyPrompts(s, Substr(input, 0, offset)))

RECURSIVE NormalizeBreaks(_, _)
\* message.replace(/[\r\n]+/g, with)
NormalizeBreaks(message, with) ==
  IF message = <<>> THEN <<>>
  ELSE IF Head(message) \in {CR, NL}
       THEN IF Len(message) > 1 /\ message[2] \in {CR, NL}
            THEN NormalizeBreaks(Tail(message), with)
            ELSE with \o NormalizeBreaks(Tail(message), with)
       ELSE <<Head(message)>> \o NormalizeBreaks(Tail(message), with)

print(s, message) == Write(s, NormalizeBreaks(message, <<CR, NL>>))

println(s, message) == print(s, Append(message, NL))

clearInput(s) ==
  LET currentPrompt == applyPrompts(s, s.input)
      allRows == countLines(currentPrompt, s.termCols)
      promptCursor == applyPromptOffset(s, s.input, s.cursor)
      row == offsetToColRow(currentPrompt, promptCursor, s.termCols).row
      moveRows == allRows - row - 1
  IN Write(s, Repeat(<<"ESC[E">>, moveRows)
              \o <<CR, "ESC[K">>
              \o Repeat(<<"ESC[F", "ESC[K">>, allRows - 1))

\* The end of setInput: the cursor goes from the end of what was written to
\* the row and column of the (trimmed) cursor offset, and the input is
\* replaced.
setInputMove(s, newInput, newPrompt, trimmed) ==
  LET newCursor == applyPromptOffset(s, newInput, trimmed)
      newLines == countLines(newPrompt, s.termCols)
      pos == offsetToColRow(newPrompt, newCursor, s.termCols)
      moveUpRows == newLines - pos.row - 1
  IN [Write(s, <<CR>> \o Repeat(<<"ESC[F">>, moveUpRows) \o Repeat(<<"ESC[C">>, pos.col))
        EXCEPT !.cursor = trimmed, !.input = newInput]

\* setInput once the old input is cleared: the new input is written with
\* its prompts and the cursor overflow is trimmed.
setInputWrite(s, newInput) ==
  setInputMove(print(s, applyPrompts(s, newInput)), newInput, applyPrompts(s, newInput),
               IF s.cursor > Len(newInput) THEN Len(newInput) ELSE s.cursor)

setInput(s, newInput, clear) ==
  setInputWrite(IF clear THEN clearInput(s) ELSE s, newInput)

setCursor(s, newCursor0) ==
  LET newCursor == IF newCursor0 < 0 THEN 0
                   ELSE IF newCursor0 > Len(s.input) THEN Len(s.input)
                   ELSE newCursor0
      inputWithPrompt == applyPrompts(s, s.input)
      prev == offsetToColRow(inputWithPrompt,
                             applyPromptOffset(s, s.input, s.cursor), s.termCols)
      new == offsetToColRow(inputWithPrompt,
                            applyPromptOffset(s, s.input, newCursor), s.termCols)
      vertical == IF new.row > prev.row
                  THEN Repeat(<<"ESC[B">>, new.row - prev.row)
                  ELSE Repeat(<<"ESC[A">>, prev.row - new.row)
      horizontal == IF new.col > prev.col
                    THEN Repeat(<<"ESC[C">>, new.col - prev.col)
                    ELSE Repeat(<<"ESC[D">>, prev.col - new.col)
  IN [Write(s, vertical \o horizontal) EXCEPT !.cursor = newCursor]

handleCursorMove(s, dir) ==
  IF dir > 0 THEN setCursor(s, s.cursor + Min(dir, Len(s.input) - s.cursor))
  ELSE IF dir < 0 THEN setCursor(s, s.cursor + Max(dir, 0 - s.cursor))
  ELSE s

\* handleCursorErase without the return at offset 0.
handleCursorErase_NoGuard(s, backspace) ==
  IF backspace
  THEN LET newInput == Substr(s.input, 0, s.cursor - 1) \o SubstrFrom(s.input, s.cursor)
           s1 == clearInput(s)
       IN setInput([s1 EXCEPT !.cursor = @ - 1], newInput, FALSE)
  ELSE setInput(s, Substr(s.input, 0, s.cursor) \o SubstrFrom(s.input, s.cursor + 1), TRUE)

\* handleCursorErase whose forward delete removes two characters.
handleCursorErase_DeletesTwo(s, backspace) ==
  IF backspace
  THEN IF s.cursor <= 0 THEN s
       ELSE LET newInput == Substr(s.input, 0, s.cursor - 1) \o SubstrFrom(s.input, s.cursor)
                s1 == clearInput(s)
            IN setInput([s1 EXCEPT !.cursor = @ - 1], newInput, FALSE)
  ELSE setInput(s, Substr(s.input, 0, s.cursor) \o SubstrFrom(s.input, s.cursor + 2), TRUE)

handleCursorErase(s, backspace) ==
  IF backspace
  THEN IF s.cursor <= 0 THEN s
       ELSE LET newInput == Substr(s.input, 0, s.cursor - 1) \o SubstrFrom(s.input, s.cursor)
                s1 == clearInput(s)
            IN setInput([s1 EXCEPT !.cursor = @ - 1], newInput, FALSE)
  ELSE setInput(s, Substr(s.input, 0, s.cursor) \o SubstrFrom(s.input, s.cursor + 1), TRUE)

\* handleCursorInsert that appends the text instead of inserting it at the
\* cursor.
handleCursorInsert_Appends(s, data) ==
  setInput([s EXCEPT !.cursor = @ + Len(data)], s.input \o data, TRUE)

handleCursorInsert(s, data) ==
  LET newInput == Substr(s.input, 0, s.cursor) \o data \o SubstrFrom(s.input, s.cursor)
  IN setInput([s EXCEPT !.cursor = @ + Len(data)], newInput, TRUE)

\* handleReadComplete resolving with the rendered text, prompts included.
handleReadComplete_ResolvesRendered(s) ==
  LET s1 == [s EXCEPT !.history = HistoryPush(@, s.input)]
      s2 == IF s1.activePrompt # <<>>
            THEN [Settle(s1, "line", "resolve", applyPrompts(s1, s1.input))
                    EXCEPT !.activePrompt = <<>>]
            ELSE s1
  IN [Write(s2, <<CR, NL>>) EXCEPT !.active = FALSE]

\* handleReadComplete leaving the session active.
handleReadComplete_StaysActive(s) ==
  LET s1 == [s EXCEPT !.history = HistoryPush(@, s.input)]
      s2 == IF s1.activePrompt # <<>>
            THEN [Settle(s1, "line", "resolve", s1.input) EXCEPT !.activePrompt = <<>>]
            ELSE s1
  IN Write(s2, <<CR, NL>>)

handleReadComplete(s) ==
  LET s1 == [s EXCEPT !.history = HistoryPush(@, s.input)]
      s2 == IF s1.activePrompt # <<>>
            THEN [Settle(s1, "line", "resolve", s1.input) EXCEPT !.activePrompt = <<>>]
            ELSE s1
  IN [Write(s2, <<CR, NL>>) EXCEPT !.active = FALSE]

\* handleTermResize that redraws without storing the new size.
handleTermResize_KeepsSize(s, cols) == setInput(clearInput(s), s.input, FALSE)

handleTermResize(s, cols) ==
  setInput([clearInput(s) EXCEPT !.termCols = cols], s.input, FALSE)

RECURSIVE WideRows(_, _, _, _)
\* The rows printWide builds, from item number i (0-based) on.
WideRows(items, i, wideCols, itemWidth) ==
  IF i >= Len(items) THEN <<>>
  ELSE LET last == Min(i + wideCols, Len(items))
           Pad(item) == item \o Repeat(<<SP>>, itemWidth - Len(item))
           Cells[k \in i..last] ==
             IF k = last THEN <<>> ELSE Pad(items[k + 1]) \o Cells[k + 1]
       IN <<Cells[i]>> \o WideRows(items, last, wideCols, itemWidth)

RECURSIVE PrintRows(_, _)
PrintRows(s, rows) ==
  IF rows = <<>> THEN s ELSE PrintRows(println(s, Head(rows)), Tail(rows))

\* printWide(items, padding) for a non-empty item list.  With an item wider
\* than the terminal wideCols is 0, wideRows is Infinity, and the loop
\* prints empty rows for ever.
printWide(s, items, padding) ==
  LET widest == CHOOSE w \in {Len(items[k]) : k \in 1..Len(items)} :
                  \A k \in 1..Len(items) : Len(items[k]) <= w
      itemWidth == widest + padding
      wideCols == s.termCols \div itemWidth
  IN IF wideCols = 0 THEN [println(s, <<>>) EXCEPT !.hung = TRUE]
     ELSE PrintRows(s, WideRows(items, 0, wideCols, itemWidth))

\* The padding printWide is called with by default.
DefaultPadding == 2

\* resume of printAndRestartPrompt, closing over the saved cursor.
resume(s, cursor) ==
  IF s.hung THEN s ELSE setInput([s EXCEPT !.cursor = cursor], s.input, TRUE)

\* The prompt of the confirmation Tab asks for.
ConfirmPrompt(n) == <<"Display all ", ToString(n), " possibilities? (y or n)">>

readChar(s, prompt, kind, cursor, candidates) ==
  [Write(s, prompt) EXCEPT
     !.activeCharPrompt = <<[kind |-> kind, cursor |-> cursor, candidates |-> candidates]>>]

\* printAndRestartPrompt with the two callbacks handleData passes: "list"
\* prints the candidates and resumes at once; "confirm" starts a
\* single-character read, and resume waits for its promise.
printAndRestartPrompt(s, callback, candidates) ==
  LET cursor == s.cursor
      s1 == Write(setCursor(s, Len(s.input)), <<CR, NL>>)
  IN IF callback = "list"
     THEN resume(printWide(s1, candidates, DefaultPadding), cursor)
     ELSE readChar(s1, ConfirmPrompt(Len(candidates)), "tab", cursor, candidates)

handleTab(s) ==
  IF Len(s.handlers) > 0
  THEN LET inputFragment == Substr(s.input, 0, s.cursor)
           hasTailingSpace == hasTailingWhitespace(inputFragment)
           candidates ==
             SortStrings(collectAutocompleteCandidates(s.handlers, inputFragment))
       IN IF Len(candidates) = 0
          THEN (IF ~hasTailingSpace THEN handleCursorInsert(s, <<SP>>) ELSE s)
          ELSE IF Len(candidates) = 1
          THEN handleCursorInsert(
                 s, SubstrFrom(candidates[1], Len(getLastToken(inputFragment))) \o <<SP>>)
          ELSE IF Len(candidates) <= MaxAutocompleteEntries
          THEN LET sameFragment == getSharedFragment(inputFragment, candidates)
                   s1 == IF sameFragment # <<>> /\ sameFragment[1] # <<>>
                         THEN handleCursorInsert(
                                s, SubstrFrom(sameFragment[1],
                                              Len(getLastToken(inputFragment))))
                         ELSE s
               IN printAndRestartPrompt(s1, "list", candidates)
          ELSE printAndRestartPrompt(s, "confirm", candidates)
  ELSE handleCursorInsert(s, <<SP, SP, SP, SP>>)

handleEscape(s, seq) ==
  CASE seq = <<"[", "A">> ->
         LET r == HistoryGetPrevious(s.history)
             s1 == [s EXCEPT !.history = r.h]
         IN IF r.value # <<>> /\ r.value[1] # <<>>
            THEN setCursor(setInput(s1, r.value[1], TRUE), Len(r.value[1]))
            ELSE s1
    [] seq = <<"[", "B">> ->
         LET r == HistoryGetNext(s.history)
             s1 == [s EXCEPT !.history = r.h]
             value == IF r.value # <<>> THEN r.value[1] ELSE <<>>
         IN setCursor(setInput(s1, value, TRUE), Len(value))
    [] seq = <<"[", "D">> -> handleCursorMove(s, -1)
    [] seq = <<"[", "C">> -> handleCursorMove(s, 1)
    [] seq = <<"[", "3", "~">> -> handleCursorErase(s, FALSE)
    [] seq = <<"[", "F">> -> setCursor(s, Len(s.input))
    [] seq = <<"[", "H">> -> setCursor(s, 0)
    [] seq = <<"b">> -> setCursor(s, closestLeftBoundary(s.input, s.cursor))
    [] seq = <<"f">> -> setCursor(s, closestRightBoundary(s.input, s.cursor))
    [] seq = <<DEL>> ->
         LET ofs == closestLeftBoundary(s.input, s.cursor)
         IN setCursor(setInput(s, Substr(s.input, 0, ofs) \o SubstrFrom(s.input, s.cursor),
                               TRUE), ofs)
    [] OTHER -> s

handleControl(s, data) ==
  CASE data = <<CR>> ->
         IF thisIsIncompleteInput(s, s.input) THEN handleCursorInsert(s, <<NL>>)
         ELSE handleReadComplete(s)
    [] data = <<DEL>> -> handleCursorErase(s, TRUE)
    [] data = <<TAB>> -> handleTab(s)
    [] data = <<ETX>> ->
         LET s1 == setCursor(s, Len(s.input))
             s2 == Write(s1, <<"^", "C", CR, NL>>
                             \o (IF s1.activePrompt = <<>> THEN <<>>
                                 ELSE s1.activePrompt[1].prompt))
         IN [s2 EXCEPT !.input = <<>>, !.cursor = 0, !.history = HistoryRewind(@)]
    [] OTHER -> s

\* handleData(data) for a non-empty data.  Nothing runs once an operation
\* hangs.
handleData(s, data) ==
  IF s.hung \/ ~s.active THEN s
  ELSE LET ord == Ord(data[1])
       IN IF ord = 27 THEN handleEscape(s, Tail(data))
          ELSE IF ord < 32 \/ ord = 127 THEN handleControl(s, data)
          ELSE handleCursorInsert(s, data)

RECURSIVE ForEachChar(_, _)
\* Array.from(normData).forEach(c => this.handleData(c))
ForEachChar(s, chars) ==
  IF chars = <<>> THEN s
  ELSE ForEachChar(handleData(s, <<Head(chars)>>), Tail(chars))

\* The continuations with the answer never looked at: the listing is
\* printed whatever the user answers.
charPromptContinuations_ListsUnasked(s, charPrompt, yn) ==
  IF charPrompt.kind # "tab" THEN s
  ELSE resume(printWide(s, charPrompt.candidates, DefaultPadding), charPrompt.cursor)

\* The continuations of the promise of a single-character read that Tab
\* started: the listing if the answer is y or Y, then resume.  They run
\* when the handler that resolved the promise has returned.
charPromptContinuations(s, charPrompt, yn) ==
  IF charPrompt.kind # "tab" THEN s
  ELSE resume(IF yn = <<"y">> \/ yn = <<"Y">>
              THEN printWide(s, charPrompt.candidates, DefaultPadding)
              ELSE s,
              charPrompt.cursor)

\* handleTermData without the return after the single-character read is
\* resolved: the data goes on to the line editor.
handleTermData_FallsThrough(s, data) ==
  IF ~s.active THEN s
  ELSE IF s.activeCharPrompt # <<>>
  THEN LET s1 == Write([Settle(s, "char", "resolve", data) EXCEPT !.activeCharPrompt = <<>>],
                       <<CR, NL>>)
       IN handleData(charPromptContinuations(s1, s.activeCharPrompt[1], data), data)
  ELSE IF Len(data) > 3 /\ Ord(data[1]) # 27
  THEN ForEachChar(s, NormalizeBreaks(data, <<CR>>))
  ELSE handleData(s, data)

handleTermData(s, data) ==
  IF ~s.active THEN s
  ELSE IF s.activeCharPrompt # <<>>
  THEN LET s1 == Write([Settle(s, "char", "resolve", data) EXCEPT !.activeCharPrompt = <<>>],
                       <<CR, NL>>)
       IN charPromptContinuations(s1, s.activeCharPrompt[1], data)
  ELSE IF Len(data) > 3 /\ Ord(data[1]) # 27
  THEN ForEachChar(s, NormalizeBreaks(data, <<CR>>))
  ELSE handleData(s, data)

\* read without the reset of _input and _cursor.
read_NoReset(s, prompt, continuationPrompt) ==
  [Write(s, prompt) EXCEPT
     !.activePrompt = <<[prompt |-> prompt, continuationPrompt |-> continuationPrompt]>>,
     !.active = TRUE]

read(s, prompt, continuationPrompt) ==
  [Write(s, prompt) EXCEPT
     !.activePrompt = <<[prompt |-> prompt, continuationPrompt |-> continuationPrompt]>>,
     !.input = <<>>,
     !.cursor = 0,
     !.active = TRUE]

\* abortRead that rejects the single-character read without forgetting it.
abortRead_KeepsCharPrompt(s, reason) ==
  LET s1 == IF s.activePrompt # <<>> \/ s.activeCharPrompt # <<>>
            THEN Write(s, <<CR, NL>>) ELSE s
      s2 == IF s1.activePrompt # <<>>
            THEN [Settle(s1, "line", "reject", reason) EXCEPT !.activePrompt = <<>>]
            ELSE s1
      s3 == IF s2.activeCharPrompt # <<>>
            THEN Settle(s2, "char", "reject", reason)
            ELSE s2
  IN [s3 EXCEPT !.active = FALSE]

abortRead(s, reason) ==
  LET s1 == IF s.activePrompt # <<>> \/ s.activeCharPrompt # <<>>
            THEN Write(s, <<CR, NL>>) ELSE s
      s2 == IF s1.activePrompt # <<>>
            THEN [Settle(s1, "line", "reject", reason) EXCEPT !.activePrompt = <<>>]
            ELSE s1
      s3 == IF s2.activeCharPrompt # <<>>
            THEN [Settle(s2, "char", "reject", reason) EXCEPT !.activeCharPrompt = <<>>]
            ELSE s2
  IN [s3 EXCEPT !.active = FALSE]

\* ------------------------------------------------------------ environment

\* The characters the user types during a line read.
TypedChars == {"h", "i", SQ}

\* The escape sequences and control characters the terminal delivers.
EscapeKeys ==
  { <<ESC, "[", "A">>, <<ESC, "[", "B">>, <<ESC, "[", "D">>, <<ESC, "[", "C">>,
    <<ESC, "[", "3", "~">>, <<ESC, "[", "F">>, <<ESC, "[", "H">>,
    <<ESC, "b">>, <<ESC, "f">>, <<ESC, DEL>> }

ControlKeys == { <<CR>>, <<DEL>>, <<TAB>>, <<ETX>> }

\* Chunks of more than 3 characters, as a paste delivers them.
PasteChunks ==
  { <<"h", CR, NL, "i">>, <<"h", "i", DEL, CR>>, <<TAB, "h", DEL, ETX>> }

\* What the user answers to a single-character read.
AnswerKeys == { <<"y">> }

Keys == {<<c>> : c \in TypedChars} \cup EscapeKeys \cup ControlKeys \cup PasteChunks

\* The column counts of the terminal.
TermColsSet == {4, 6}

\* The prompts reads are started with.
Prompts == { <<"$", SP>> }

ContinuationPrompts == { <<">", SP>> }

CharPrompts == { <<"?">> }

AbortReasons == { "aborted" }

\* options.isIncompleteInput: absent, or the caller's.
Predicates == { "default", "custom" }

\* The completion callbacks registered with addAutocompleteHandler.
Handlers == << [fn |-> "words"] >>

\* ------------------------------------------------------------------ state

VARIABLES active, input, cursor, activePrompt, activeCharPrompt, termCols,
          history, predicate, handlers, hung

vars == <<active, input, cursor, activePrompt, activeCharPrompt, termCols,
          history, predicate, handlers, hung>>

\* The controller as the operation that starts now finds it: nothing
\* written and nothing settled yet.
This ==
  [active |-> active, input |-> input, cursor |-> cursor,
   activePrompt |-> activePrompt, activeCharPrompt |-> activeCharPrompt,
   termCols |-> termCols, history |-> history, handlers |-> handlers,
   predicate |-> predicate, hung |-> hung, out |-> <<>>, settled |-> <<>>]

\* The operation leaves the controller as s; what it wrote and what it
\* settled, s.out and s.settled, have left the controller.
Becomes(s) ==
  /\ active' = s.active
  /\ input' = s.input
  /\ cursor' = s.cursor
  /\ activePrompt' = s.activePrompt
  /\ activeCharPrompt' = s.activeCharPrompt
  /\ termCols' = s.termCols
  /\ history' = s.history
  /\ predicate' = s.predicate
  /\ handlers' = s.handlers
  /\ hung' = s.hung

\* new LocalEchoController(term, options), attached to the terminal, with
\* options.isIncompleteInput one of predicates.
InitWith(predicates, historySizes) ==
  /\ active = FALSE
  /\ input = <<>>
  /\ cursor = 0
  /\ activePrompt = <<>>
  /\ activeCharPrompt = <<>>
  /\ termCols \in TermColsSet
  /\ \E size \in historySizes : history = NewHistory(size)
  /\ predicate \in predicates
  /\ handlers = Handlers
  /\ hung = FALSE

Init == InitWith({"default"}, {HistorySize})

Read ==
  /\ ~hung
  /\ \E prompt \in Prompts, continuationPrompt \in ContinuationPrompts :
       Becomes(read(This, prompt, continuationPrompt))

ReadChar ==
  /\ ~hung
  /\ \E prompt \in CharPrompts :
       Becomes(readChar(This, prompt, "user", 0, <<>>))

AbortRead ==
  /\ ~hung
  /\ \E reason \in AbortReasons :
       Becomes(abortRead(This, reason))

\* The events the terminal may deliver now: a key or a chunk, and an
\* answer when a single-character read waits for one.
Events == Keys \cup (IF activeCharPrompt # <<>> THEN AnswerKeys ELSE {})

\* An event arrives; the environment builds no Buffer longer than maxLen.
TermDataUpTo(maxLen) ==
  /\ ~hung
  /\ \E data \in Events :
       \E s \in {handleTermData(This, data)} :
          /\ Len(s.input) <= maxLen
          /\ Becomes(s)

TermData == TermDataUpTo(MaxLen)

TermResize ==
  /\ ~hung
  /\ \E cols \in TermColsSet :
       Becomes(handleTermResize(This, cols))

Next == Read \/ ReadChar \/ AbortRead \/ TermData \/ TermResize

\* A session of any number of line reads, with the default predicate.
Spec == Init /\ [][Next]_vars

\* The first line of a session, with either predicate: a read starts only
\* while the History is empty.
InitEdit == InitWith(Predicates, {HistorySize})

ReadFirst == history.entries = <<>> /\ Read

TermDataEdit == TermDataUpTo(MaxLenEdit)

NextEdit == ReadFirst \/ ReadChar \/ AbortRead \/ TermDataEdit \/ TermResize

SpecEdit == InitEdit /\ [][NextEdit]_vars

\* A HistoryController on its own, of any size up to MaxHistorySize, under
\* any sequence of push, getPrevious, getNext and rewind.
HistoryLines == { <<"h">>, <<"i">>, <<"h", "i">>, <<SP>>, <<>> }

InitHistory == InitWith({"default"}, 1..MaxHistorySize)

Push ==
  /\ \E entry \in HistoryLines : history' = HistoryPush(history, entry)
  /\ UNCHANGED <<active, input, cursor, activePrompt, activeCharPrompt, termCols,
                 predicate, handlers, hung>>

GetPrevious ==
  /\ history' = HistoryGetPrevious(history).h
  /\ UNCHANGED <<active, input, cursor, activePrompt, activeCharPrompt, termCols,
                 predicate, handlers, hung>>

GetNext ==
  /\ history' = HistoryGetNext(history).h
  /\ UNCHANGED <<active, input, cursor, activePrompt, activeCharPrompt, termCols,
                 predicate, handlers, hung>>

Rewind ==
  /\ history' = HistoryRewind(history)
  /\ UNCHANGED <<active, input, cursor, activePrompt, activeCharPrompt, termCols,
                 predicate, handlers, hung>>

NextHistory == Push \/ GetPrevious \/ GetNext \/ Rewind

SpecHistory == InitHistory /\ [][NextHistory]_vars

\* All texts of at most n characters of an alphabet.
Texts(alphabet, n) == UNION { [1..k -> alphabet] : k \in 0..n }

\* A line read under way in which the user has typed and edited their way
\* to one of the given texts, with the cursor anywhere in it.
InitTyped(texts, handlerLists) ==
  /\ active = TRUE
  /\ input \in texts
  /\ cursor \in 0..Len(input)
  /\ \E prompt \in Prompts, continuationPrompt \in ContinuationPrompts :
       activePrompt = <<[prompt |-> prompt, continuationPrompt |-> continuationPrompt]>>
  /\ activeCharPrompt = <<>>
  /\ termCols \in TermColsSet
  /\ history = NewHistory(HistorySize)
  /\ predicate = "default"
  /\ handlers \in handlerLists
  /\ hung = FALSE

\* Enter over any text of quotes, backslashes, pipes, spaces and letters:
\* the default isIncompleteInput decides each of them.
PredicateChars == {"h", SP, SQ, DQ, BS, "|"}

InitPredicate ==
  /\ InitTyped(Texts(PredicateChars, MaxText), {Handlers})
  /\ cursor = Len(input)

EnterKey ==
  /\ ~hung
  /\ active
  /\ \E s \in {handleTermData(This, <<CR>>)} :
       Len(s.input) <= MaxText + 1 /\ Becomes(s)

NextPredicate == EnterKey

SpecPredicate == InitPredicate /\ [][NextPredicate]_vars

\* Tab at any offset of any text of words, spaces and newlines, with the
\* callbacks registered being one that returns WordList, one that raises,
\* both, three of which the middle one raises, or none.
TabChars == {"h", "i", SP, NL}

HandlerLists ==
  { << [fn |-> "words"] >>, << [fn |-> "throws"] >>,
    << [fn |-> "throws"], [fn |-> "first"] >>,
    << [fn |-> "other"], [fn |-> "throws"], [fn |-> "words"] >>, << >> }

InitTab == InitTyped(Texts(TabChars, MaxText), HandlerLists)

TabKey ==
  /\ ~hung
  /\ active
  /\ \E s \in {handleTermData(This, <<TAB>>)} :
       Len(s.input) <= MaxText + 4 /\ Becomes(s)

NextTab == TabKey

SpecTab == InitTab /\ [][NextTab]_vars

\* Line reads, each started when the one before has completed, with the
\* primary prompt and a continuation prompt that may be empty, under the
\* editing keys only: typed characters, cursor motion, erasing, Enter and
\* the history arrows.
ScreenContinuationPrompts == { <<">", SP>>, <<>> }

EditingKeys == {<<c>> : c \in TypedChars} \cup EscapeKeys \cup { <<CR>>, <<DEL>> }

ReadScreen ==
  /\ ~hung
  /\ ~active
  /\ \E prompt \in Prompts, continuationPrompt \in ScreenContinuationPrompts :
       Becomes(read(This, prompt, continuationPrompt))

EditKey ==
  /\ ~hung
  /\ \E data \in EditingKeys : \E s \in {handleTermData(This, data)} :
       /\ Len(s.input) <= MaxLenEdit
       /\ s.active \/ Len(s.input) <= MaxRecalled
       /\ Becomes(s)

NextScreen == ReadScreen \/ EditKey

SpecScreen == Init /\ [][NextScreen]_vars

\* ------------------------------------------------------------- the terminal

(***************************************************************************)
(* The terminal the controller writes to, of a fixed number of columns: a  *)
(* grid of rows of characters and a cursor at a 0-based row and column.    *)
(* A character written in the last column moves the cursor to the start    *)
(* of the next row.                                                        *)
(***************************************************************************)
BlankTerm == [rows |-> <<>>, row |-> 0, col |-> 0]

PadRows(rows, n) ==
  IF n > Len(rows) THEN rows \o [i \in 1..(n - Len(rows)) |-> <<>>] ELSE rows

PadRow(line, n) ==
  IF n > Len(line) THEN line \o [i \in 1..(n - Len(line)) |-> SP] ELSE line

TermPut(term, ch, cols) ==
  LET rows1 == PadRows(term.rows, term.row + 1)
      line == PadRow(rows1[term.row + 1], term.col + 1)
      wraps == term.col + 1 >= cols
  IN [rows |-> [rows1 EXCEPT ![term.row + 1] = [line EXCEPT ![term.col + 1] = ch]],
      row |-> IF wraps THEN term.row + 1 ELSE term.row,
      col |-> IF wraps THEN 0 ELSE term.col + 1]

\* Erase from the cursor to the end of the row.
TermEraseToEnd(term) ==
  IF term.row + 1 > Len(term.rows) THEN term
  ELSE [term EXCEPT !.rows[term.row + 1] = SubSeq(@, 1, Min(term.col, Len(@)))]

TermApply(term, tok, cols) ==
  CASE tok = CR -> [term EXCEPT !.col = 0]
    [] tok = NL -> [term EXCEPT !.row = @ + 1]
    [] tok = "ESC[K" -> TermEraseToEnd(term)
    [] tok = "ESC[E" -> [term EXCEPT !.row = @ + 1, !.col = 0]
    [] tok = "ESC[F" -> [term EXCEPT !.row = Max(@ - 1, 0), !.col = 0]
    [] tok = "ESC[A" -> [term EXCEPT !.row = Max(@ - 1, 0)]
    [] tok = "ESC[B" -> [term EXCEPT !.row = @ + 1]
    [] tok = "ESC[C" -> [term EXCEPT !.col = Min(@ + 1, cols - 1)]
    [] tok = "ESC[D" -> [term EXCEPT !.col = Max(@ - 1, 0)]
    [] OTHER -> TermPut(term, tok, cols)

RECURSIVE TermWrite(_, _, _)
\* The tokens applied one after the other (the test of term.row has each
\* step evaluated before the next one is taken).
TermWrite(term, toks, cols) ==
  IF toks = <<>> \/ term.row < 0 THEN term
  ELSE TermWrite(TermApply(term, Head(toks), cols), Tail(toks), cols)

RECURSIVE TrimRow(_)
TrimRow(line) ==
  IF line # <<>> /\ line[Len(line)] = SP THEN TrimRow(SubSeq(line, 1, Len(line) - 1))
  ELSE line

RECURSIVE TrimRows(_)
TrimRows(rows) ==
  IF rows # <<>> /\ rows[Len(rows)] = <<>> THEN TrimRows(SubSeq(rows, 1, Len(rows) - 1))
  ELSE rows

\* What the terminal shows: its rows without trailing blanks, and its cursor.
Shown(term) ==
  [rows |-> TrimRows([i \in 1..Len(term.rows) |-> TrimRow(term.rows[i])]),
   row |-> term.row, col |-> term.col]

RECURSIVE LineBreaks(_)
\* A text as the terminal lays it out: every newline starts a new row.
LineBreaks(text) ==
  IF text = <<>> THEN <<>>
  ELSE (IF Head(text) = NL THEN <<CR, NL>> ELSE <<Head(text)>>) \o LineBreaks(Tail(text))

\* The Rendered View of a controller on a terminal: the prompts and the
\* Buffer laid out from the top left, the terminal cursor where the Buffer
\* cursor falls in that text.
RenderedScreen(s) ==
  LET view == applyPrompts(s, s.input)
      offset == applyPromptOffset(s, s.input, s.cursor)
      all == TermWrite(BlankTerm, LineBreaks(view), s.termCols)
      upTo == TermWrite(BlankTerm, LineBreaks(SubSeq(view, 1, offset)), s.termCols)
  IN Shown([rows |-> all.rows, row |-> upTo.row, col |-> upTo.col])

\* ----------------------------------------------------------------- claims

\* The session an operation leaves, taken as the start of the next one:
\* nothing written and nothing settled yet.
Fresh(s) == [s EXCEPT !.out = <<>>, !.settled = <<>>]

\* Every input event the terminal can deliver.
AllEvents == Keys \cup AnswerKeys

Enter == <<CR>>

UpArrow == <<ESC, "[", "A">>

\* A line read is pending and Enter would reach the line editor.
EnterReachesEditor == ~hung /\ active /\ activePrompt # <<>> /\ activeCharPrompt = <<>>

\* The predicate in force, written out: the caller's if given, else the
\* default one.
Incomplete ==
  IF predicate = "custom" THEN customIsIncompleteInput(input) ELSE isIncompleteInput(input)

\* The characters typing and editing can put in the Buffer: typed ones, the
\* newline of a continued line, the space of a completion.
BufferChars == TypedChars \cup {NL, SP}

\* C1: Enter on a Buffer the predicate judges complete resolves the line
\* read with exactly the Buffer, wherever the cursor is, and the Buffer holds
\* only typed or edited-in characters, never the prompt's.
C1_EnterResolvesWithBuffer ==
  (EnterReachesEditor /\ ~Incomplete) =>
    /\ handleTermData(This, Enter).settled =
         <<[promise |-> "line", how |-> "resolve", value |-> input]>>
    /\ \A i \in 1..Len(input) : input[i] \in BufferChars

C1_Witness ==
  /\ EnterReachesEditor
  /\ input = <<"h", "i">>
  /\ cursor = 1
  /\ handleTermData(This, Enter).settled =
       <<[promise |-> "line", how |-> "resolve", value |-> <<"h", "i">>]>>

\* C2: after every operation the cursor is an offset of the Buffer:
\* 0 <= Cursor <= Len(Buffer).
C2_CursorInBuffer == 0 <= cursor /\ cursor <= Len(input)

\* Backspace was pressed at offset 0 of a non-empty Buffer and the cursor
\* stayed there.
C2_Witness ==
  /\ active
  /\ activeCharPrompt = <<>>
  /\ ~hung
  /\ cursor = 0
  /\ Len(input) = MaxLen
  /\ handleTermData(This, <<DEL>>).cursor = 0
  /\ handleTermData(This, <<ESC, "[", "D">>).cursor = 0
  /\ handleTermData(This, <<ESC, "[", "F">>).cursor = Len(input)

\* C3: Enter on a Buffer the predicate in force (the caller's if given)
\* judges incomplete keeps the line read pending and the session active,
\* pushes nothing to the History, and inserts one newline at the cursor,
\* which advances by one; on any other Buffer Enter completes the read.
C3_EnterContinuesIncomplete ==
  EnterReachesEditor =>
    LET s == handleTermData(This, Enter)
    IN IF Incomplete
       THEN /\ s.active
            /\ s.activePrompt = activePrompt
            /\ s.settled = <<>>
            /\ s.history = history
            /\ s.input = SubSeq(input, 1, cursor) \o <<NL>>
                           \o SubSeq(input, cursor + 1, Len(input))
            /\ s.cursor = cursor + 1
       ELSE /\ ~s.active
            /\ s.activePrompt = <<>>
            /\ Len(s.settled) = 1
            /\ s.settled[1].promise = "line"
            /\ s.settled[1].how = "resolve"

\* The caller's predicate continues a line the default one would end, with
\* the cursor inside the Buffer.
C3_Witness ==
  /\ EnterReachesEditor
  /\ predicate = "custom"
  /\ input = <<"h", "h">>
  /\ cursor = 1
  /\ ~isIncompleteInput(input)
  /\ handleTermData(This, Enter).input = <<"h", NL, "h">>
  /\ handleTermData(This, Enter).cursor = 2
  /\ handleTermData(This, Enter).active

\* C4 as the specification states it: whenever no read is under way (a line
\* read completed, or abortRead ran) the Buffer is empty and the Cursor 0.
C4_Original == ~active => (input = <<>> /\ cursor = 0)

\* C4, amended: the Buffer and the Cursor are reset when a line read starts;
\* completing a read with Enter and abortRead leave both as they are.
C4_ResetAtRead ==
  /\ \A prompt \in Prompts, continuationPrompt \in ContinuationPrompts :
       LET s == read(This, prompt, continuationPrompt)
       IN s.input = <<>> /\ s.cursor = 0
  /\ \A reason \in AbortReasons :
       LET s == abortRead(This, reason)
       IN s.input = input /\ s.cursor = cursor
  /\ (EnterReachesEditor /\ ~Incomplete) =>
       LET s == handleTermData(This, Enter)
       IN s.input = input /\ s.cursor = cursor

\* A read completed with "hi" in the Buffer, which the next read clears.
C4_Witness ==
  /\ ~active
  /\ input = <<"h", "i">>
  /\ cursor = 2
  /\ history.entries = << <<"h", "i">> >>
  /\ \A prompt \in Prompts, continuationPrompt \in ContinuationPrompts :
       read(This, prompt, continuationPrompt).input = <<>>

\* What abortRead settles: the pending line read, then the pending
\* single-character read.
PendingRejections(reason) ==
  (IF activePrompt # <<>>
   THEN <<[promise |-> "line", how |-> "reject", value |-> reason]>> ELSE <<>>)
  \o (IF activeCharPrompt # <<>>
      THEN <<[promise |-> "char", how |-> "reject", value |-> reason]>> ELSE <<>>)

\* C5: abortRead rejects exactly the pending reads, each once, writes one
\* line break if and only if there was one, leaves the session inactive with
\* nothing pending, and a second abortRead rejects and writes nothing.
C5_AbortRejectsPending ==
  ~hung =>
    \A reason \in AbortReasons :
      LET s == abortRead(This, reason)
          again == abortRead(Fresh(s), reason)
      IN /\ s.settled = PendingRejections(reason)
         /\ s.out = IF PendingRejections(reason) # <<>> THEN <<CR, NL>> ELSE <<>>
         /\ ~s.active
         /\ s.activePrompt = <<>>
         /\ s.activeCharPrompt = <<>>
         /\ again.settled = <<>>
         /\ again.out = <<>>
         /\ again = Fresh(s)

\* Both reads are pending and abortRead rejects both.
C5_Witness ==
  /\ ~hung
  /\ activePrompt # <<>>
  /\ activeCharPrompt # <<>>
  /\ input # <<>>
  /\ Len(abortRead(This, "aborted").settled) = 2
  /\ abortRead(This, "aborted").out = <<CR, NL>>

\* C6: with no line read and no single-character read pending (before the
\* first read, after a completed one, after abortRead) every input event is
\* ignored: no field changes, nothing is settled, nothing is written.
C6_InactiveIgnoresInput ==
  (~hung /\ activePrompt = <<>> /\ activeCharPrompt = <<>>) =>
    \A data \in AllEvents : handleTermData(This, data) = This

\* A read has completed, and the keys that would edit its Buffer do nothing.
C6_Witness ==
  /\ ~hung
  /\ activePrompt = <<>>
  /\ activeCharPrompt = <<>>
  /\ input # <<>>
  /\ history.entries # <<>>
  /\ handleTermData(This, <<"h">>) = This
  /\ handleTermData(This, <<DEL>>) = This

\* C7 as the specification states it: whenever a single-character read is
\* pending, whether or not a line read is active, the next input event
\* resolves it with the event's data and a line break is written.
C7_Original ==
  (~hung /\ activeCharPrompt # <<>>) =>
    \A data \in AllEvents :
      LET s == handleTermData(This, data)
      IN /\ Len(s.settled) >= 1
         /\ s.settled[1] = [promise |-> "char", how |-> "resolve", value |-> data]
         /\ Len(s.out) >= 2
         /\ SubSeq(s.out, 1, 2) = <<CR, NL>>

\* A single-character read and a line read are both pending.
CharReadDuringLineRead ==
  ~hung /\ active /\ activePrompt # <<>> /\ activeCharPrompt # <<>>

\* The event left the line read pending, and the Buffer and the History as
\* they were.
LineReadUntouched(s) ==
  /\ s.active
  /\ s.activePrompt = activePrompt
  /\ \A i \in 1..Len(s.settled) : s.settled[i].promise # "line"
  /\ s.input = input
  /\ s.history = history

\* C8 as the specification states it: an input event that finds a
\* single-character read pending during a line read leaves the line read
\* pending and Buffer, Cursor and History exactly as before, whatever it is.
C8_Original ==
  CharReadDuringLineRead =>
    \A data \in AllEvents :
      LET s == handleTermData(This, data)
      IN LineReadUntouched(s) /\ s.cursor = cursor

\* C8, amended: such an event leaves the line read pending and the Buffer
\* and the History exactly as before; the Cursor too when a caller's
\* readChar started the single-character read.
C8_CharReadConsumesEvent ==
  CharReadDuringLineRead =>
    \A data \in AllEvents :
      LET s == handleTermData(This, data)
      IN /\ LineReadUntouched(s)
         /\ activeCharPrompt[1].kind = "user" => s.cursor = cursor

\* Enter arrives while a caller's single-character read is pending over a
\* complete Buffer: the line read does not complete.
C8_Witness ==
  /\ CharReadDuringLineRead
  /\ activeCharPrompt[1].kind = "user"
  /\ input = <<"h">>
  /\ cursor = 0
  /\ handleTermData(This, Enter).settled =
       <<[promise |-> "char", how |-> "resolve", value |-> Enter]>>
  /\ handleTermData(This, Enter).active
  /\ handleTermData(This, <<"i">>).input = <<"h">>

\* C9 as the specification states it: after a line read completes with a
\* non-blank Buffer L, the first Up arrow of the next line read makes the
\* Buffer exactly L with the Cursor at its end.
C9_Original ==
  (EnterReachesEditor /\ ~Incomplete /\ ~IsBlank(input)) =>
    LET completed == handleTermData(This, Enter)
        next == read(Fresh(completed), activePrompt[1].prompt,
                     activePrompt[1].continuationPrompt)
        recalled == handleTermData(Fresh(next), UpArrow)
    IN recalled.input = input /\ recalled.cursor = Len(input)

\* The last n elements of a sequence.
LastN(seq, n) == SubSeq(seq, Max(Len(seq) - n, 0) + 1, Len(seq))

\* C10 as the specification states it: the ring holds at most its capacity
\* of entries, the most recently accepted ones in the order pushed; a push
\* accepted by a full ring evicts the oldest entry.
C10_Original ==
  /\ Len(history.entries) <= history.size
  /\ \A entry \in HistoryLines :
       (~IsBlank(entry)
          /\ (history.entries = <<>> \/ entry # history.entries[Len(history.entries)])) =>
         HistoryPush(history, entry).entries =
           LastN(Append(history.entries, entry), history.size)

\* C11: push leaves the entries unchanged when the entry trims to the empty
\* string or equals the newest entry, so pushing the same string twice in a
\* row adds at most one entry.
C11_PushSkipsBlankAndDuplicate ==
  \A entry \in HistoryLines :
    LET once == HistoryPush(history, entry)
        twice == HistoryPush(once, entry)
    IN /\ (IsBlank(entry)
            \/ (history.entries # <<>> /\ entry = history.entries[Len(history.entries)]))
            => once.entries = history.entries
       /\ twice.entries = once.entries
       /\ Len(twice.entries) <= Len(history.entries) + 1

\* A ring with room left holds "h" as its newest entry: pushing "h" again,
\* a space or the empty string adds nothing, pushing "i" adds it.
C11_Witness ==
  /\ history.entries = << <<"i">>, <<"h">> >>
  /\ history.size > 2
  /\ HistoryPush(history, <<"h">>).entries = history.entries
  /\ HistoryPush(history, <<SP>>).entries = history.entries
  /\ HistoryPush(history, <<>>).entries = history.entries
  /\ HistoryPush(history, <<"i">>).entries = << <<"i">>, <<"h">>, <<"i">> >>

\* The entry at 0-based index idx, as <<entry>>, or <<>> for the absent
\* sentinel.
EntryAt(entries, idx) == IF idx < Len(entries) THEN <<entries[idx + 1]>> ELSE <<>>

\* C12: the navigation cursor stays within 0..length; getPrevious moves it to
\* max(0, cursor-1) and returns the entry there, absent only for an empty
\* ring; getNext moves it to min(length, cursor+1) and returns the entry
\* there, absent exactly when the cursor reaches length; neither changes the
\* entries.
C12_NavigationInRange ==
  LET length == Len(history.entries)
      prev == HistoryGetPrevious(history)
      next == HistoryGetNext(history)
  IN /\ 0 <= history.cursor /\ history.cursor <= length
     /\ prev.h.cursor = (IF history.cursor >= 1 THEN history.cursor - 1 ELSE 0)
     /\ prev.value = EntryAt(history.entries, prev.h.cursor)
     /\ (prev.value = <<>>) <=> (length = 0)
     /\ prev.h.entries = history.entries
     /\ next.h.cursor = (IF history.cursor + 1 <= length THEN history.cursor + 1 ELSE length)
     /\ next.value = EntryAt(history.entries, next.h.cursor)
     /\ (next.value = <<>>) <=> (next.h.cursor = length)
     /\ next.h.entries = history.entries

\* The cursor stands on the older of two entries after getPrevious twice:
\* getNext returns the newer one, getPrevious the older one again.
C12_Witness ==
  /\ history.entries = << <<"h">>, <<"i">> >>
  /\ history.cursor = 0
  /\ HistoryGetNext(history).value = << <<"i">> >>
  /\ HistoryGetNext(HistoryGetNext(history).h).value = <<>>
  /\ HistoryGetPrevious(history).value = << <<"h">> >>

\* C13 as the specification states it: every completion of a line read,
\* whatever the Buffer is, leaves the History cursor equal to the number of
\* History entries.
C13_Original ==
  (EnterReachesEditor /\ ~Incomplete) =>
    LET s == handleTermData(This, Enter)
    IN s.history.cursor = Len(s.history.entries)

CtrlC == <<ETX>>

\* C14: Ctrl+C during a line read empties the Buffer, puts the Cursor at 0,
\* sets the History cursor to the number of entries without changing them,
\* echoes ^C, a line break and the primary prompt, and leaves the read
\* pending and the session active with nothing settled.
C14_CtrlCResetsLine ==
  EnterReachesEditor =>
    LET s == handleTermData(This, CtrlC)
        echo == <<"^", "C", CR, NL>> \o activePrompt[1].prompt
    IN /\ s.input = <<>>
       /\ s.cursor = 0
       /\ s.history.entries = history.entries
       /\ s.history.cursor = Len(history.entries)
       /\ Len(s.out) >= Len(echo)
       /\ SubSeq(s.out, Len(s.out) - Len(echo) + 1, Len(s.out)) = echo
       /\ s.settled = <<>>
       /\ s.active
       /\ s.activePrompt = activePrompt

\* Ctrl+C arrives over a line recalled with Up, the cursor moved off its end.
C14_Witness ==
  /\ EnterReachesEditor
  /\ history.entries # <<>>
  /\ history.cursor < Len(history.entries)
  /\ input # <<>>
  /\ cursor < Len(input)
  /\ handleTermData(This, CtrlC).input = <<>>
  /\ handleTermData(This, CtrlC).history.cursor = Len(history.entries)

\* C15: a resize during a line read leaves the Buffer, the cursor offset,
\* the pending read and the History unchanged and settles nothing; the
\* cached terminal size becomes the new one.
C15_ResizeKeepsLine ==
  (~hung /\ active /\ activePrompt # <<>>) =>
    \A cols \in TermColsSet :
      LET s == handleTermResize(This, cols)
      IN /\ s.input = input
         /\ s.cursor = cursor
         /\ s.active
         /\ s.activePrompt = activePrompt
         /\ s.activeCharPrompt = activeCharPrompt
         /\ s.history = history
         /\ s.settled = <<>>
         /\ s.termCols = cols

\* A Buffer of several lines, the cursor inside it, in a terminal that is
\* resized to another width.
C15_Witness ==
  /\ ~hung /\ active /\ activePrompt # <<>>
  /\ Len(input) = MaxLenEdit
  /\ \E i \in 1..Len(input) : input[i] = NL
  /\ cursor > 0 /\ cursor < Len(input)
  /\ \E cols \in TermColsSet :
       /\ cols # termCols
       /\ handleTermResize(This, cols).termCols = cols
       /\ handleTermResize(This, cols).cursor = cursor

\* The number of characters q of a text that no backslash precedes.
UnescapedCount(text, q) ==
  Cardinality({k \in 1..Len(text) : text[k] = q /\ (k = 1 \/ text[k - 1] # BS)})

\* The length of the run of backslashes a text ends with.
TrailingBackslashes(text) ==
  Cardinality({k \in 1..Len(text) : \A j \in k..Len(text) : text[j] = BS})

\* The text ends with an operator (|, ||, &&) and whitespace only.
DanglingOperator(text) == IsBlank(LastSegment(text, <<>>))

\* C17 as the specification states it: only unescaped quotes count.  A
\* non-blank text with no dangling operator and no trailing backslash is
\* continued by Enter iff its single quotes not preceded by a backslash, or
\* its double quotes not preceded by a backslash, are odd in number.
C17_Original ==
  (EnterReachesEditor /\ predicate = "default" /\ ~IsBlank(input)
     /\ ~DanglingOperator(input) /\ TrailingBackslashes(input) = 0) =>
    (handleTermData(This, Enter).active
       <=> (UnescapedCount(input, SQ) % 2 = 1 \/ UnescapedCount(input, DQ) % 2 = 1))

\* C18 as the specification states it: a non-blank text without quotes and
\* without a dangling operator is continued by Enter iff the run of
\* backslashes it ends with has odd length.
C18_Original ==
  (EnterReachesEditor /\ predicate = "default" /\ ~IsBlank(input)
     /\ ~DanglingOperator(input)
     /\ CountChar(input, SQ) = 0 /\ CountChar(input, DQ) = 0) =>
    (handleTermData(This, Enter).active <=> TrailingBackslashes(input) % 2 = 1)

\* Tab reaches the completion: a line read is under way, no
\* single-character read is pending and callbacks are registered.
TabCompletes == EnterReachesEditor /\ Len(handlers) > 0

TabKeyData == <<TAB>>

\* The text before the cursor, the text after it, and the candidates Tab
\* finds for the text before it.
BeforeCursor == SubSeq(input, 1, cursor)

AfterCursor == SubSeq(input, cursor + 1, Len(input))

TabCandidates == collectAutocompleteCandidates(handlers, BeforeCursor)

\* The last token already typed before the cursor: none when that text is
\* blank or ends in whitespace, else the last token of its parse.
TypedLastToken ==
  IF IsBlank(BeforeCursor) \/ hasTailingWhitespace(BeforeCursor)
       \/ parse(BeforeCursor) = <<>>
  THEN <<>>
  ELSE parse(BeforeCursor)[Len(parse(BeforeCursor))]

C20_Original ==
  (TabCompletes /\ Len(TabCandidates) = 0) =>
    LET s == handleTermData(This, TabKeyData)
    IN IF cursor > 0 /\ IsSpace(input[cursor])
       THEN s.input = input /\ s.cursor = cursor
       ELSE s.input = BeforeCursor \o <<SP>> \o AfterCursor /\ s.cursor = cursor + 1

\* C16 as the specification states it: the terminal shows the Rendered View
\* with its cursor at the Buffer cursor.  So read on a blank terminal shows
\* the prompt, and an editing event that finds the terminal showing the
\* Rendered View leaves it showing the Rendered View of the edited Buffer.
C16_Original ==
  /\ ~hung =>
       \A prompt \in Prompts, continuationPrompt \in ScreenContinuationPrompts :
         LET s == read(This, prompt, continuationPrompt)
         IN Shown(TermWrite(BlankTerm, s.out, termCols)) = RenderedScreen(s)
  /\ EnterReachesEditor =>
       \A data \in EditingKeys :
         LET s == handleTermData(This, data)
         IN s.active =>
              Shown(TermWrite(RenderedScreen(This), s.out, termCols)) = RenderedScreen(s)

\* The longest text every candidate starts with.
LongestCommonPrefix(candidates) ==
  LET shared == {k \in 0..Len(candidates[1]) :
                   \A i \in 1..Len(candidates) :
                     /\ k <= Len(candidates[i])
                     /\ SubSeq(candidates[i], 1, k) = SubSeq(candidates[1], 1, k)}
  IN SubSeq(candidates[1], 1, CHOOSE k \in shared : \A m \in shared : m <= k)

\* C21 as the specification states it: Tab with two to maxAutocompleteEntries
\* candidates inserts at the cursor the longest common prefix of the
\* candidates without the last token already typed (nothing when the prefix
\* is not longer than that token) and no space, whatever the text before the
\* cursor; the text after the cursor is kept, and once the listing is
\* printed the cursor stands right after the insertion.
C21_Original ==
  (TabCompletes /\ Len(TabCandidates) >= 2
     /\ Len(TabCandidates) <= MaxAutocompleteEntries) =>
    LET s == handleTermData(This, TabKeyData)
        lcp == LongestCommonPrefix(TabCandidates)
        inserted == IF Len(lcp) > Len(TypedLastToken)
                    THEN SubSeq(lcp, Len(TypedLastToken) + 1, Len(lcp))
                    ELSE <<>>
    IN /\ s.input = BeforeCursor \o inserted \o AfterCursor
       /\ ~s.hung => s.cursor = cursor + Len(inserted)

\* The tokens of piece are written, one after the other, somewhere in out.
Contains(out, piece) ==
  \E k \in 0..(Len(out) - Len(piece)) : SubSeq(out, k + 1, k + Len(piece)) = piece

\* The listing of the candidates is in out: each of them, followed by its
\* padding.
Listed(out, candidates) ==
  \A i \in 1..Len(candidates) : Contains(out, candidates[i] \o <<SP, SP>>)

\* What Tab writes and settles before its confirmation is answered: a
\* single-character read is started, nothing is settled, no candidate is
\* written and the Buffer is untouched.
TabAsksFirst(t) ==
  /\ t.activeCharPrompt # <<>>
  /\ t.settled = <<>>
  /\ \A i \in 1..Len(TabCandidates) : ~Contains(t.out, TabCandidates[i])
  /\ t.input = input
  /\ t.active /\ t.activePrompt = activePrompt

\* The answer resolves the single-character read and nothing else; the line
\* read stays pending.
AnswerKeepsLineRead(a, answer) ==
  /\ a.activeCharPrompt = <<>>
  /\ a.settled = <<[promise |-> "char", how |-> "resolve", value |-> answer]>>
  /\ a.active /\ a.activePrompt = activePrompt

\* The answers a user may give to the confirmation.
ConfirmAnswers == { <<"y">>, <<"Y">>, <<"n">>, <<"N">>, <<"h">>, <<CR>>, <<TAB>>, <<ETX>> }

\* C22 as the specification states it: Tab with more than
\* maxAutocompleteEntries candidates starts a single-character read and
\* writes no candidate before it is resolved; the listing is printed only if
\* the answer is "y"; the line read stays pending and, once the prompt is
\* restored, Buffer and cursor are those before Tab.
C22_Original ==
  (TabCompletes /\ Len(TabCandidates) > MaxAutocompleteEntries) =>
    LET t == handleTermData(This, TabKeyData)
    IN /\ TabAsksFirst(t)
       /\ \A answer \in ConfirmAnswers :
            LET a == handleTermData(Fresh(t), answer)
            IN /\ AnswerKeepsLineRead(a, answer)
               /\ Listed(a.out, TabCandidates) => answer = <<"y">>
               /\ ~a.hung => a.input = input /\ a.cursor = cursor

\* C22, amended: the listing is printed only if the answer is "y" or "Y",
\* and is printed after those answers whenever the terminal is wide enough
\* for printWide to return; after any other answer the prompt is restored;
\* whenever it is restored, Buffer and cursor are those before Tab.
C22_TabConfirmsLongListing ==
  (TabCompletes /\ Len(TabCandidates) > MaxAutocompleteEntries) =>
    LET t == handleTermData(This, TabKeyData)
    IN /\ TabAsksFirst(t)
       /\ \A answer \in ConfirmAnswers :
            LET a == handleTermData(Fresh(t), answer)
                yes == answer \in {<<"y">>, <<"Y">>}
            IN /\ AnswerKeepsLineRead(a, answer)
               /\ Listed(a.out, TabCandidates) => yes
               /\ ~yes => ~a.hung
               /\ ~a.hung => /\ a.input = input /\ a.cursor = cursor
                             /\ yes => Listed(a.out, TabCandidates)

\* "hi" is typed with the cursor after the "h", three words start with "h"
\* and the terminal is wide enough: Tab asks, "y" lists the three and puts
\* the cursor back, "n" puts the cursor back without listing.
C22_Witness ==
  /\ TabCompletes
  /\ input = <<"h", "i">> /\ cursor = 1 /\ termCols = 6
  /\ Len(TabCandidates) = 3
  /\ LET t == handleTermData(This, TabKeyData)
         y == handleTermData(Fresh(t), <<"y">>)
         n == handleTermData(Fresh(t), <<"n">>)
     IN /\ t.activeCharPrompt # <<>>
        /\ Listed(y.out, TabCandidates) /\ ~y.hung /\ y.cursor = 1
        /\ ~Listed(n.out, TabCandidates) /\ n.cursor = 1 /\ n.input = input

RECURSIVE DeliverEach(_, _)
\* The characters delivered one input event at a time.
DeliverEach(s, chars) ==
  IF chars = <<>> \/ s.hung THEN s
  ELSE DeliverEach(handleTermData(s, <<Head(chars)>>), Tail(chars))

\* What C23 compares: Buffer, cursor, activity, the pending reads, the
\* values resolved and the History.
SessionState(s) ==
  [input |-> s.input, cursor |-> s.cursor, active |-> s.active,
   activePrompt |-> s.activePrompt, activeCharPrompt |-> s.activeCharPrompt,
   settled |-> s.settled, history |-> s.history]

\* C23 as the specification states it: one input event of more than three
\* characters that does not start with ESC leaves the session in the state
\* that delivering its characters one event each, with every run of CR and
\* LF collapsed to one CR, leaves it in.
C23_Original ==
  ~hung =>
    \A chunk \in PasteChunks :
      LET whole == handleTermData(This, chunk)
          each == DeliverEach(This, NormalizeBreaks(chunk, <<CR>>))
      IN (~whole.hung /\ ~each.hung) => SessionState(whole) = SessionState(each)

\* The text the specification has printWide write: the items, each padded to
\* the widest item plus the padding, row-major in
\* max(1, floor(cols / (widest + padding))) columns, every row ended by a
\* line break.
ExpectedWide(items, padding, cols) ==
  LET n == Len(items)
      widest == CHOOSE w \in {Len(items[k]) : k \in 1..n} :
                  \A k \in 1..n : Len(items[k]) <= w
      columns == Max(1, cols \div (widest + padding))
      rows == (n + columns - 1) \div columns
      Pad(item) == item \o Repeat(<<SP>>, widest + padding - Len(item))
      Row[k \in 0..n] ==
        IF k = 0 THEN <<>>
        ELSE Row[k - 1] \o Pad(items[k])
               \o (IF k % columns = 0 \/ k = n THEN <<CR, NL>> ELSE <<>>)
  IN [text |-> Row[n], rows |-> rows]

\* C24 as the specification states it: printWide returns for every non-empty
\* item list and every terminal width, and has printed every item once, in
\* order, row-major in max(1, floor(cols / (widest + padding))) columns and
\* ceil(n / columns) rows, also when an item with its padding is wider than
\* the terminal.
C24_Original ==
  (TabCompletes /\ Len(TabCandidates) > 0) =>
    LET items == SortStrings(TabCandidates)
        p == printWide(This, items, DefaultPadding)
        expected == ExpectedWide(items, DefaultPadding, termCols)
    IN /\ ~p.hung
       /\ p.out = expected.text
       /\ Len(SelectSeq(p.out, LAMBDA c : c = NL)) = expected.rows

\* The token index the callbacks are called with for the text before the
\* cursor.
TypedTokenIndex ==
  IF IsBlank(BeforeCursor) THEN 0
  ELSE IF hasTailingWhitespace(BeforeCursor) THEN Len(parse(BeforeCursor))
  ELSE Len(parse(BeforeCursor)) - 1

\* What the first k registered callbacks contribute, in registration order,
\* each called once: its result if it returned, nothing if it raised.
Contributions[k \in 0..Len(handlers)] ==
  IF k = 0 THEN <<>>
  ELSE LET r == CallProvider(handlers[k], TypedTokenIndex, parse(BeforeCursor))
       IN Contributions[k - 1] \o (IF r.ok THEN r.value ELSE <<>>)

\* C25: collectAutocompleteCandidates returns, whatever callback raises, the
\* results of the callbacks that did not raise, concatenated in registration
\* order and restricted to the candidates that start with the target
\* expression.
C25_CollectIsolatesFailures ==
  TabCompletes =>
    TabCandidates = SelectSeq(Contributions[Len(handlers)],
                              LAMBDA txt : StartsWith(txt, TypedLastToken))

\* Three callbacks are registered and the second raises; "i" is typed: the
\* candidates are "ii" of the first callback, then "ih" of the third, and
\* "Hi" is left out.
C25_Witness ==
  /\ TabCompletes
  /\ handlers = << [fn |-> "other"], [fn |-> "throws"], [fn |-> "words"] >>
  /\ input = <<"i">> /\ cursor = 1
  /\ TabCandidates = << <<"i", "i">>, <<"i", "h">> >>
  /\ handleTermData(This, TabKeyData).input = <<"i">>

AltBackspace == <<ESC, DEL>>

\* The offsets at which a word starts: a word character that is the first of
\* the text or follows a character that is not one.
WordStarts(text) ==
  {k \in 0..(Len(text) - 1) :
     IsWordChar(text[k + 1]) /\ (k = 0 \/ ~IsWordChar(text[k]))}

\* C26: Alt+Backspace with a word start before the cursor removes exactly
\* the text between the closest such word start and the cursor, keeps the
\* text before and after it and leaves the cursor at that word start; at
\* offset 0 it changes nothing.
C26_AltBackspaceDeletesWord ==
  EnterReachesEditor =>
    LET s == handleTermData(This, AltBackspace)
        before == {k \in WordStarts(input) : k < cursor}
    IN /\ before # {} =>
            LET b == CHOOSE k \in before : \A m \in before : m <= k
            IN /\ s.input = SubSeq(input, 1, b) \o AfterCursor
               /\ s.cursor = b
       /\ cursor = 0 => s.input = input /\ s.cursor = 0
       /\ s.settled = <<>> /\ s.active /\ s.activePrompt = activePrompt

\* The cursor is at the end of "h'i": Alt+Backspace removes the "i" and
\* leaves "h'" with the cursor after it.
C26_Witness ==
  /\ EnterReachesEditor
  /\ input = <<"h", SQ, "i">> /\ cursor = 3
  /\ handleTermData(This, AltBackspace).input = <<"h", SQ>>
  /\ handleTermData(This, AltBackspace).cursor = 2

\* ------------------------------------------------------------ line counts
\*
\* A line read in which the user has typed letters and line breaks, on a
\* terminal that is resized down to a few columns: every redraw counts the
\* rows of the prompted text with countLines and places the cursor with
\* offsetToColRow.
WrapChars == {"h", NL}

WrapColsSet == {2, 3}

WrapKeys == { <<"h">>, <<DEL>>, <<ESC, "[", "D">>, <<ESC, "[", "C">> }

InitWrap == InitTyped(Texts(WrapChars, MaxText), {Handlers})

WrapKey ==
  /\ ~hung
  /\ \E data \in WrapKeys : \E s \in {handleTermData(This, data)} :
       Len(s.input) <= MaxText /\ Becomes(s)

WrapResize ==
  /\ ~hung
  /\ \E cols \in WrapColsSet : Becomes(handleTermResize(This, cols))

NextWrap == WrapKey \/ WrapResize

SpecWrap == InitWrap /\ [][NextWrap]_vars

\* The text whose rows the redraws count: the Buffer with its prompts.
PromptedText == applyPrompts(This, input)

\* ceil(n / d)
CeilDiv(n, d) == (n + d - 1) \div d

\* The rows a text occupies on a terminal whose rows hold at most maxCols
\* characters: each of its lines takes ceil(length / maxCols) rows, and one
\* row when it is empty.
RowsOccupied(text, maxCols) ==
  LET Walk[k \in 0..Len(text)] ==
        IF k = 0 THEN [done |-> 0, line |-> 0]
        ELSE IF text[k] = NL
             THEN [done |-> Walk[k - 1].done + Max(1, CeilDiv(Walk[k - 1].line, maxCols)),
                   line |-> 0]
             ELSE [done |-> Walk[k - 1].done, line |-> Walk[k - 1].line + 1]
      end == Walk[Len(text)]
  IN end.done + Max(1, CeilDiv(end.line, maxCols))

\* C27 as the specification states it: countLines(text, maxCols) is the
\* number of rows the text occupies on a terminal maxCols wide; for a
\* non-empty text of n characters without a line break that is
\* ceil(n / maxCols), and offsetToColRow(text, n, maxCols).row is one less.
C27_Original ==
  LET text == PromptedText
      n == Len(text)
  IN /\ countLines(text, termCols) = RowsOccupied(text, termCols)
     /\ (n > 0 /\ \A k \in 1..n : text[k] # NL) =>
          /\ countLines(text, termCols) = CeilDiv(n, termCols)
          /\ offsetToColRow(text, n, termCols).row = CeilDiv(n, termCols) - 1

\* C28: countLines is at least 1 and is no smaller for a text than for any
\* prefix of it; offsetToColRow(text, offset, maxCols).row never decreases
\* as the offset grows.
C28_CountLinesMonotone ==
  LET text == PromptedText
  IN \A k \in 0..Len(text) :
       /\ countLines(SubSeq(text, 1, k), termCols) >= 1
       /\ countLines(SubSeq(text, 1, k), termCols) <= countLines(text, termCols)
       /\ \A j \in 0..k :
            offsetToColRow(text, j, termCols).row <= offsetToColRow(text, k, termCols).row

\* Two lines are typed on a terminal 2 columns wide: the prompted text takes
\* more rows than its first line, which wraps, and more than the prompt.
C28_Witness ==
  /\ active /\ termCols = 2
  /\ input = <<"h", NL, "h">>
  /\ countLines(SubSeq(PromptedText, 1, 2), termCols) = 1
  /\ countLines(SubSeq(PromptedText, 1, 3), termCols) = 2
  /\ countLines(PromptedText, termCols) > countLines(SubSeq(PromptedText, 1, 4), termCols)

AltLeft == <<ESC, "b">>

AltRight == <<ESC, "f">>

\* The offsets at which a word ends: right after a word character that is
\* the last of the text or is followed by a character that is not one.
WordEnds(text) ==
  {k \in 1..Len(text) :
     IsWordChar(text[k]) /\ (k = Len(text) \/ ~IsWordChar(text[k + 1]))}

Greatest(S) == CHOOSE k \in S : \A m \in S : m <= k

Least(S) == CHOOSE k \in S : \A m \in S : k <= m

\* C29 as the specification states it: closestLeftBoundary(text, offset) is
\* the greatest word start strictly less than offset and
\* closestRightBoundary(text, offset) the least word end strictly greater;
\* when there is none the result is the offset itself (the functions never
\* return an absent result).
C29_Original ==
  \A offset \in 0..Len(input) :
    LET starts == {k \in WordStarts(input) : k < offset}
        ends == {k \in WordEnds(input) : k > offset}
    IN /\ closestLeftBoundary(input, offset) =
            (IF starts # {} THEN Greatest(starts) ELSE offset)
       /\ closestRightBoundary(input, offset) =
            (IF ends # {} THEN Least(ends) ELSE offset)

\* C29, amended: when no word starts before the offset closestLeftBoundary
\* is 0, and when no word ends after it closestRightBoundary is the length
\* of the text; so the left result is less than the offset except at offset
\* 0, and the right result greater except at the end of the text.
C29_ClosestBoundaries ==
  \A offset \in 0..Len(input) :
    LET starts == {k \in WordStarts(input) : k < offset}
        ends == {k \in WordEnds(input) : k > offset}
        left == closestLeftBoundary(input, offset)
        right == closestRightBoundary(input, offset)
    IN /\ left = (IF starts # {} THEN Greatest(starts) ELSE 0)
       /\ right = (IF ends # {} THEN Least(ends) ELSE Len(input))
       /\ left < offset \/ (left = offset /\ offset = 0)
       /\ right > offset \/ (right = offset /\ offset = Len(input))

\* The Buffer is 'h' between two quotes and the cursor stands before the
\* "h": no word starts before it and Alt+Left goes to offset 0; the word
\* ends at 2 and Alt+Right goes there; past the word the right boundary is
\* the end of the text and the left boundary the start of the word.
C29_Witness ==
  /\ EnterReachesEditor
  /\ input = <<SQ, "h", SQ>> /\ cursor = 1
  /\ handleTermData(This, AltLeft).cursor = 0
  /\ handleTermData(This, AltRight).cursor = 2
  /\ closestRightBoundary(input, 2) = 3
  /\ closestLeftBoundary(input, 3) = 1

\* C30 as the specification states it: hasTailingWhitespace(text) is true
\* iff the last character of the whole text is a space or a tab that no
\* backslash immediately precedes; so for the Buffer and for the text
\* before the cursor, whatever they are.
C30_Original ==
  \A text \in {input, BeforeCursor} :
    hasTailingWhitespace(text) <=>
      /\ Len(text) > 0
      /\ text[Len(text)] \in {SP, TAB}
      /\ Len(text) = 1 \/ text[Len(text) - 1] # BS

\* -------------------------------------------------------- shared fragment
\*
\* Tab on a typed token, the one callback registered returning any list of
\* one or two candidates.
TokenChars == {"h", "i"}

CandidateLists ==
  LET words == Texts(TokenChars, MaxText) \ {<<>>}
  IN {<<w>> : w \in words} \cup {<<v, w>> : v \in words, w \in words}

InitShared ==
  InitTyped(Texts(TokenChars, MaxLen),
            { << [fn |-> "gives", args |-> list] >> : list \in CandidateLists })

NextShared == TabKey

SpecShared == InitShared /\ [][NextShared]_vars

\* C31: for every non-empty candidate list, in any order, whose candidates
\* all start with the fragment, getSharedFragment(fragment, candidates)
\* returns the longest common prefix of the candidates (and so returns at
\* all).  The fragment is the token before the cursor, the list the
\* candidates Tab finds for it, alone or followed by one more candidate.
C31_SharedFragmentIsCommonPrefix ==
  (TabCompletes /\ Len(TabCandidates) >= 1) =>
    \A more \in {<<>>} \cup
                {<<w>> : w \in {v \in Texts(TokenChars, MaxText) :
                                  v # <<>> /\ StartsWith(v, BeforeCursor)}} :
      LET candidates == TabCandidates \o more
      IN (\A i \in 1..Len(candidates) : StartsWith(candidates[i], BeforeCursor)) =>
           getSharedFragment(BeforeCursor, candidates)
             = <<LongestCommonPrefix(candidates)>>

\* "h" is typed and the candidates are "hi" and "hih": the shared fragment
\* is "hi", also with the candidates in the other order and with "hii"
\* added, and Tab completes the token to it.
C31_Witness ==
  /\ TabCompletes
  /\ input = <<"h">> /\ cursor = 1
  /\ TabCandidates = << <<"h", "i">>, <<"h", "i", "h">> >>
  /\ getSharedFragment(BeforeCursor, TabCandidates) = << <<"h", "i">> >>
  /\ getSharedFragment(BeforeCursor, << <<"h", "i", "h">>, <<"h", "i">>, <<"h", "i", "i">> >>)
       = << <<"h", "i">> >>
  /\ handleTermData(This, TabKeyData).input = <<"h", "i">>

\* C32 as the specification states it: getSharedFragment(fragment,
\* candidates) returns the "none" sentinel whenever some candidate does not
\* start with the fragment, also when the fragment is at least as long as
\* the first candidate.
C32_Original ==
  (/\ TabCompletes
   /\ Len(TabCandidates) >= 1
   /\ \E i \in 1..Len(TabCandidates) : ~StartsWith(TabCandidates[i], BeforeCursor)) =>
    getSharedFragment(BeforeCursor, TabCandidates) = <<>>

Backspace == <<DEL>>

ForwardDelete == <<ESC, "[", "3", "~">>

\* What an erase leaves alone: nothing is settled, the reads pending and
\* the History stay as they are.
EraseOnlyEdits(s) ==
  /\ s.settled = <<>>
  /\ s.active /\ s.activePrompt = activePrompt /\ s.activeCharPrompt = <<>>
  /\ s.history = history

\* C33: Backspace at cursor c > 0 leaves the Buffer without its character
\* at index c - 1 and the cursor at c - 1; at offset 0 it changes neither
\* and writes nothing.  Forward Delete at c < length leaves the Buffer
\* without its character at index c and the cursor at c; at c = length it
\* changes neither.
C33_EraseRemovesOneCharacter ==
  EnterReachesEditor =>
    LET b == handleTermData(This, Backspace)
        d == handleTermData(This, ForwardDelete)
    IN /\ cursor > 0 => /\ b.input = SubSeq(input, 1, cursor - 1) \o AfterCursor
                        /\ b.cursor = cursor - 1
       /\ cursor = 0 => b.input = input /\ b.cursor = 0 /\ b.out = <<>>
       /\ cursor < Len(input) =>
            /\ d.input = BeforeCursor \o SubSeq(input, cursor + 2, Len(input))
            /\ d.cursor = cursor
       /\ cursor = Len(input) => d.input = input /\ d.cursor = cursor
       /\ EraseOnlyEdits(b) /\ EraseOnlyEdits(d)

\* The cursor stands after the "h" of "h'i": Backspace leaves "'i" with the
\* cursor at 0, forward Delete leaves "hi" with the cursor at 1.
C33_Witness ==
  /\ EnterReachesEditor
  /\ input = <<"h", SQ, "i">> /\ cursor = 1
  /\ handleTermData(This, Backspace).input = <<SQ, "i">>
  /\ handleTermData(This, Backspace).cursor = 0
  /\ handleTermData(This, ForwardDelete).input = <<"h", "i">>
  /\ handleTermData(This, ForwardDelete).cursor = 1

\* The rows a listing of the items takes on the terminal.
ListingRows(s, items) ==
  Shown(TermWrite(BlankTerm, printWide(Fresh(s), items, DefaultPadding).out, s.termCols)).rows

\* The screen shows the listing on consecutive rows and, on the rows below
\* it, the Rendered View of s with the cursor where the Buffer cursor is.
ListingAboveView(screen, listing, s) ==
  LET view == RenderedScreen(s)
  IN \E k \in 0..Len(screen.rows) :
       /\ k + Len(listing) <= Len(screen.rows)
       /\ SubSeq(screen.rows, k + 1, k + Len(listing)) = listing
       /\ SubSeq(screen.rows, k + Len(listing) + 1, Len(screen.rows)) = view.rows
       /\ screen.row = k + Len(listing) + view.row
       /\ screen.col = view.col

\* The padded candidates are narrower than the terminal, so that no row of
\* the listing reaches the last column.
ListingFits(candidates) ==
  \A i \in 1..Len(candidates) : Len(candidates[i]) + DefaultPadding < termCols

\* C34 as the specification states it: Tab with two to
\* maxAutocompleteEntries candidates, on a terminal that shows the Rendered
\* View, leaves every row of the listing on the screen and the Rendered
\* View repainted on the rows below it, whatever the Buffer and the cursor.
C34_Original ==
  (TabCompletes /\ Len(TabCandidates) >= 2
     /\ Len(TabCandidates) <= MaxAutocompleteEntries
     /\ ListingFits(TabCandidates)) =>
    LET s == handleTermData(This, TabKeyData)
    IN ~s.hung =>
         ListingAboveView(Shown(TermWrite(RenderedScreen(This), s.out, termCols)),
                          ListingRows(This, SortStrings(TabCandidates)), s)

DownArrow == <<ESC, "[", "B">>

\* C35 as the specification states it: a Down arrow received while the
\* History cursor is past the newest entry changes nothing: the History
\* cursor stays at the number of entries, and the Buffer typed so far and
\* the cursor are unchanged.
C35_Original ==
  (EnterReachesEditor /\ history.cursor = Len(history.entries)) =>
    LET s == handleTermData(This, DownArrow)
    IN /\ s.history.cursor = Len(s.history.entries)
       /\ s.history.entries = history.entries
       /\ s.input = input
       /\ s.cursor = cursor

\* C36 as the specification states it: while no line read is active, a
\* resize only updates the cached terminal size: it writes nothing and
\* changes neither the Buffer nor the cursor.
C36_Original ==
  (~hung /\ ~active) =>
    \A cols \in TermColsSet :
      LET s == handleTermResize(This, cols)
      IN /\ s.termCols = cols
         /\ s.out = <<>>
         /\ s.input = input /\ s.cursor = cursor

\* How often an operation settled the promise of the line read ("line") or
\* of the single-character read ("char").
Settles(s, promise) == Len(SelectSeq(s.settled, LAMBDA e : e.promise = promise))

\* An operation that starts no read settled each promise pending before it
\* at most once, and none that was not pending; a promise it did not settle
\* is still the pending read of its kind.
KeepsOrSettles(s) ==
  /\ Settles(s, "line") <= (IF activePrompt # <<>> THEN 1 ELSE 0)
  /\ Settles(s, "char") <= (IF activeCharPrompt # <<>> THEN 1 ELSE 0)
  /\ (activePrompt # <<>> /\ Settles(s, "line") = 0) => s.activePrompt = activePrompt
  /\ (activeCharPrompt # <<>> /\ Settles(s, "char") = 0) =>
       s.activeCharPrompt = activeCharPrompt

\* C37 as the specification states it: no continuation is dropped
\* unsettled and none is settled twice.  An input event and abortRead
\* settle a pending promise at most once or leave it pending; read and
\* readChar, which make a new promise the pending one of its kind, settle
\* the one that was pending before.
C37_Original ==
  ~hung =>
    /\ \A data \in AllEvents : KeepsOrSettles(handleTermData(This, data))
    /\ \A reason \in AbortReasons : KeepsOrSettles(abortRead(This, reason))
    /\ \A prompt \in Prompts, continuationPrompt \in ContinuationPrompts :
         LET s == read(This, prompt, continuationPrompt)
         IN /\ Settles(s, "line") = (IF activePrompt # <<>> THEN 1 ELSE 0)
            /\ Settles(s, "char") = 0 /\ s.activeCharPrompt = activeCharPrompt
    /\ \A prompt \in CharPrompts :
         LET s == readChar(This, prompt, "user", 0, <<>>)
         IN /\ Settles(s, "char") = (IF activeCharPrompt # <<>> THEN 1 ELSE 0)
            /\ Settles(s, "line") = 0 /\ s.activePrompt = activePrompt

=============================================================================
